---- MODULE Spec2Model ----
\* Model of src/app.py: a Streamlit page that accumulates click points on an
\* uploaded image in st.session_state and, on a button press, calls the SAM
\* model with the accumulated points.
\*
\* The script of app.py is executed from top to bottom once per "script run".
\* A script run is started by a user event on a widget (file uploader, image
\* click, one of the two buttons, the download button / a manual rerun) or by
\* st.rerun(), which stops the current run and starts the next one at once.
\* One script run is one step (ScriptRun); one user event is one step.  User
\* events are delivered when no run is pending (pc = "idle"): the spec calls
\* the program a single-threaded request/response refresh cycle.
EXTENDS Integers, Sequences, FiniteSets, TLC

\* ---------------------------------------------------------------- bounds
MaxX == 1          \* click x coordinates are 0..MaxX
MaxY == 1          \* click y coordinates are 0..MaxY
MaxPoints == 2     \* clicks on new places are offered while Len(points) < MaxPoints
MaxResets == 1     \* the reset button is offered while reset_counter < MaxResets

\* ---------------------------------------------------------------- values
\* [x, y] of one click (value["x"], value["y"]).
Coordinates == (0..MaxX) \X (0..MaxY)

\* The files the user can put into st.file_uploader: a name and the image the
\* file holds.  Two different images may carry the same file name.
Files ==
  { [name |-> "a.png", content |-> 1],
    [name |-> "a.png", content |-> 2],
    [name |-> "b.png", content |-> 3] }

\* Python's None, for each kind of value that can be None.
NoFile == [name |-> "None", content |-> 0]            \* uploaded_file is None
NoName == "None"                                      \* image_uploaded_name is None
NoImage == [source |-> 0, points |-> <<>>]            \* segmented_image_rgba is None
NoValue == <<>>                                       \* value is None (no click yet)
NoCall == [source |-> 0, points |-> <<>>, labels |-> <<>>, outcome |-> "none"]

\* What one call of predictor can do: return a mask, return no mask, raise.
Outcomes == {"mask", "nomask", "exception"}

\* `p in list` of Python.
Contains(list, p) == \E i \in 1..Len(list) : list[i] = p

VARIABLES
  session_state,   \* st.session_state: points, image_uploaded_name,
                   \* segmented_image_rgba, is_processing, reset_counter
  uploaded_file,   \* what st.file_uploader holds
  coords,          \* state of the streamlit_image_coordinates widget: key, value
  pressed,         \* the button whose press started the pending run
  page,            \* the elements drawn by the latest script run
  pc,              \* "idle": page settled; "run": a script run is pending
  event,           \* the user event that started the current chain of runs,
                   \* with the session state and the image handled before it
  runs,            \* script runs executed since that event
  calls,           \* predictor invocations since that event
  last_call,       \* arguments and outcome of the latest predictor invocation
  last_image       \* the file the latest script run that saw a file worked on

vars ==
  << session_state, uploaded_file, coords, pressed, page, pc, event, runs,
     calls, last_call, last_image >>

\* ------------------------------------------------- the script, block by block
\* Lines 62-75: the defaults st.session_state gets on the first run.
InitialSessionState ==
  [ points |-> <<>>,
    image_uploaded_name |-> NoName,
    segmented_image_rgba |-> NoImage,
    is_processing |-> FALSE,
    reset_counter |-> 0 ]

\* Lines 83-91: a file whose name differs from the recorded one resets the state.
NewImageBlock(s, file) ==
  IF file # NoFile /\ s.image_uploaded_name # file.name
  THEN [ s EXCEPT !.points = <<>>,
                  !.segmented_image_rgba = NoImage,
                  !.image_uploaded_name = file.name,
                  !.is_processing = FALSE,
                  !.reset_counter = 0 ]
  ELSE s

\* The key without the reset counter: a reset would not renew the widget.
CoordsKey_NoCounter(file, s) == << file.name, 0 >>

\* Line 107: key=f"image_coords_{uploaded_file.name}_{reset_counter}".
CoordsKey(file, s) == << file.name, s.reset_counter >>

\* No streamlit_image_coordinates widget is on the page.
NoWidget == [key |-> << "None", 0 >>, value |-> NoValue]

\* Line 106: the widget returns the latest click made on the widget of this
\* key, and None when the widget of this key is new.
CoordsValue(w, key) == IF w.key = key THEN w.value ELSE NoValue

\* The test without `not in points`: every held click is appended again.
ClickAdds_NoMembershipTest(s, value) == value # NoValue

\* Lines 111-114: `if value:` and `if [new_x, new_y] not in points`.
ClickAdds(s, value) == value # NoValue /\ ~Contains(s.points, value)

\* The click replaces the list instead of extending it.
ClickBlock_ReplacesList(s, value) ==
  [ s EXCEPT !.points = << value >>,
             !.segmented_image_rgba = NoImage,
             !.is_processing = FALSE ]

\* The click extends the list and keeps the result of the shorter list.
ClickBlock_KeepsResult(s, value) ==
  [ s EXCEPT !.points = Append(@, value),
             !.is_processing = FALSE ]

\* Lines 115-121: append the point, drop the result and the processing flag.
ClickBlock(s, value) ==
  [ s EXCEPT !.points = Append(@, value),
             !.segmented_image_rgba = NoImage,
             !.is_processing = FALSE ]

\* Lines 131-140: body of `if st.button("点の選択をリセット")`.
ResetHandler(s) ==
  [ s EXCEPT !.points = <<>>,
             !.segmented_image_rgba = NoImage,
             !.is_processing = FALSE,
             !.reset_counter = @ + 1 ]

\* The handler drops the result and forgets to raise the processing flag.
RunHandler_NoFlag(s) ==
  [ s EXCEPT !.segmented_image_rgba = NoImage ]

\* Lines 146-149: body of `if st.button("セグメンテーションを実行")`.
RunHandler(s) ==
  [ s EXCEPT !.is_processing = TRUE,
             !.segmented_image_rgba = NoImage ]

\* Line 161: the guard of the segmentation block.
ShouldSegment(s, file) == s.is_processing /\ file # NoFile

\* Only the latest click is handed to the model.
input_points_LastOnly(points) ==
  IF points = <<>> THEN <<>> ELSE << points[Len(points)] >>

\* Line 168: np.array(points), one row [x, y] per point, in list order.
input_points(points) == [ i \in 1..Len(points) |-> << points[i][1], points[i][2] >> ]

\* Line 169: np.ones(len(points)), one foreground label per point.
input_labels(points) == [ i \in 1..Len(points) |-> 1 ]

\* Lines 172-174: the arguments predictor is called with, and what it did.
PredictorCall(s, file, outcome) ==
  [ source |-> file.content,
    points |-> input_points(s.points),
    labels |-> input_labels(s.points),
    outcome |-> outcome ]

\* Lines 176-182: the image cut out by the mask the model returned for the
\* source image and the points it was given.
SegmentedImage(call) == [source |-> call.source, points |-> call.points]

\* The flag is lowered at the end of the try body instead of in finally: an
\* exception leaves it raised.
SegmentationBlock_NoFinally(s, file, outcome) ==
  [ s EXCEPT !.segmented_image_rgba =
               IF outcome = "mask"
               THEN SegmentedImage(PredictorCall(s, file, outcome))
               ELSE IF outcome = "nomask" THEN NoImage ELSE @,
             !.is_processing = (outcome = "exception") ]

\* Lines 167-195: try / except / finally of the segmentation block.
SegmentationBlock(s, file, outcome) ==
  [ s EXCEPT !.segmented_image_rgba =
               IF outcome = "mask"
               THEN SegmentedImage(PredictorCall(s, file, outcome))
               ELSE IF outcome = "nomask" THEN NoImage ELSE @,
             !.is_processing = FALSE ]

\* Lines 184-193: the messages the block draws for an outcome.
SegmentationMessages(outcome) ==
  IF outcome = "nomask" THEN {"warning_nomask"}
  ELSE IF outcome = "exception" THEN {"error", "warning_memory"}
  ELSE {}

\* The buttons are drawn for every uploaded image, also with no point chosen.
ButtonsShown_WithoutPoints(s, file) == file # NoFile

\* Lines 93 and 125: the two buttons are drawn inside `if uploaded_file is not
\* None:` and `if st.session_state.points:`.
ButtonsShown(s, file) == file # NoFile /\ s.points # <<>>

\* Lines 93-157: what the upper part of the page shows when it is drawn whole.
InputSection(s, file) ==
  IF file = NoFile THEN {"info_upload"}
  ELSE IF ButtonsShown(s, file)
       THEN {"coords", "info_points", "reset_button", "run_button"}
       ELSE {"coords", "info_click"}

\* Lines 199-218: the result section.  uploaded_file.name on line 216 raises
\* AttributeError when uploaded_file is None.
ResultSection(s, file) ==
  IF s.segmented_image_rgba = NoImage THEN {}
  ELSE IF file = NoFile THEN {"result", "exception"}
  ELSE {"result", "download_button"}

\* One run of the script, lines 61-218.  st.rerun() ends the run where it is
\* called (rerun |-> TRUE); otherwise the run ends at the last line.
Script(s0, file, w, btn, outcome) ==
  LET s1 == NewImageBlock(s0, file)
      key == CoordsKey(file, s1)
      value == IF file = NoFile THEN NoValue ELSE CoordsValue(w, key)
      w1 == IF file = NoFile THEN NoWidget ELSE [key |-> key, value |-> value]
      buttons == ButtonsShown(s1, file)
  IN  IF file # NoFile /\ ClickAdds(s1, value)
      THEN \* line 122
           [ s |-> ClickBlock(s1, value), coords |-> w1, rerun |-> TRUE,
             page |-> {"uploader", "coords"}, call |-> NoCall ]
      ELSE IF buttons /\ btn = "reset"
      THEN \* line 141
           [ s |-> ResetHandler(s1), coords |-> w1, rerun |-> TRUE,
             page |-> {"uploader", "coords", "info_points", "reset_button"},
             call |-> NoCall ]
      ELSE IF buttons /\ btn = "run"
      THEN \* line 150
           [ s |-> RunHandler(s1), coords |-> w1, rerun |-> TRUE,
             page |-> {"uploader"} \cup InputSection(s1, file), call |-> NoCall ]
      ELSE IF ShouldSegment(s1, file)
      THEN \* line 196
           [ s |-> SegmentationBlock(s1, file, outcome), coords |-> w1,
             rerun |-> TRUE,
             page |-> {"uploader", "spinner"} \cup InputSection(s1, file)
                        \cup SegmentationMessages(outcome),
             call |-> PredictorCall(s1, file, outcome) ]
      ELSE \* line 218, or the exception of line 216
           [ s |-> s1, coords |-> w1, rerun |-> FALSE,
             page |-> {"uploader"} \cup InputSection(s1, file)
                        \cup ResultSection(s1, file),
             call |-> NoCall ]

\* ---------------------------------------------------------------- behaviour
\* The browser opens the page: the first script run is pending.
Init ==
  /\ session_state = InitialSessionState
  /\ uploaded_file = NoFile
  /\ coords = NoWidget
  /\ pressed = "none"
  /\ page = {}
  /\ pc = "run"
  /\ event = [ kind |-> "load", xy |-> NoValue, before |-> InitialSessionState,
               image |-> NoFile ]
  /\ runs = 0
  /\ calls = 0
  /\ last_call = NoCall
  /\ last_image = NoFile

\* A user event starts a chain of script runs.
StartChain(kind, xy) ==
  /\ pc = "idle"
  /\ pc' = "run"
  /\ event' = [ kind |-> kind, xy |-> xy, before |-> session_state,
                image |-> last_image ]
  /\ runs' = 0
  /\ calls' = 0
  /\ last_call' = NoCall
  /\ UNCHANGED << session_state, page, last_image >>

\* The user puts a file into the uploader (line 78), replacing what it held.
Upload ==
  \E f \in Files :
    /\ f # uploaded_file
    /\ StartChain("upload", NoValue)
    /\ uploaded_file' = f
    /\ UNCHANGED << coords, pressed >>

\* The user removes the file from the uploader (line 78).
RemoveFile ==
  /\ uploaded_file # NoFile
  /\ StartChain("remove", NoValue)
  /\ uploaded_file' = NoFile
  /\ UNCHANGED << coords, pressed >>

\* The user clicks the image at xy (line 106).
Click ==
  \E xy \in Coordinates :
    /\ "coords" \in page
    /\ Contains(session_state.points, xy) \/ Len(session_state.points) < MaxPoints
    /\ StartChain("click", xy)
    /\ coords' = [coords EXCEPT !.value = xy]
    /\ UNCHANGED << uploaded_file, pressed >>

\* The user presses "点の選択をリセット" (line 130).
PressReset ==
  /\ "reset_button" \in page
  /\ session_state.reset_counter < MaxResets
  /\ StartChain("reset", NoValue)
  /\ pressed' = "reset"
  /\ UNCHANGED << uploaded_file, coords >>

\* The user presses "セグメンテーションを実行" (line 144).
PressRun ==
  /\ "run_button" \in page
  /\ StartChain("run", NoValue)
  /\ pressed' = "run"
  /\ UNCHANGED << uploaded_file, coords >>

\* The user reruns the page without touching a widget of the script's logic
\* (the browser's rerun command, or the download button of line 213).
Rerun ==
  /\ StartChain("rerun", NoValue)
  /\ UNCHANGED << uploaded_file, coords, pressed >>

\* One script run.  A button is True only in the run its press started; the
\* state of a widget the run did not draw is dropped.
ScriptRun ==
  /\ pc = "run"
  /\ \E outcome \in Outcomes :
       LET r == Script(session_state, uploaded_file, coords, pressed, outcome)
       IN  /\ session_state' = r.s
           /\ coords' = r.coords
           /\ page' = r.page
           /\ pc' = IF r.rerun THEN "run" ELSE "idle"
           /\ calls' = IF r.call = NoCall THEN calls ELSE calls + 1
           /\ last_call' = IF r.call = NoCall THEN last_call ELSE r.call
  /\ pressed' = "none"
  /\ runs' = runs + 1
  /\ last_image' = IF uploaded_file = NoFile THEN last_image ELSE uploaded_file
  /\ UNCHANGED << uploaded_file, event >>

Next ==
  \/ Upload
  \/ RemoveFile
  \/ Click
  \/ PressReset
  \/ PressRun
  \/ Rerun
  \/ ScriptRun

Spec == Init /\ [][Next]_vars

\* The values the variables range over.
TypeOK ==
  /\ session_state.points \in Seq(Coordinates)
  /\ session_state.is_processing \in BOOLEAN
  /\ session_state.reset_counter \in 0..MaxResets
  /\ uploaded_file \in Files \cup {NoFile}
  /\ pressed \in {"none", "reset", "run"}
  /\ pc \in {"idle", "run"}
  /\ runs \in Nat
  /\ calls \in Nat

\* ------------------------------------------------------------------ claims
points == session_state.points
segmented_image_rgba == session_state.segmented_image_rgba
is_processing == session_state.is_processing
reset_counter == session_state.reset_counter
Settled == pc = "idle"
NoDuplicates(list) == \A i, j \in 1..Len(list) : list[i] = list[j] => i = j

\* C1: once the runs a click at (x, y) started have settled, the point list
\* contains [x, y]; a click on a place not yet in the list leaves the list as
\* it was with exactly that point appended at the end.
C1_ClickAddsPoint ==
  (Settled /\ event.kind = "click") =>
     /\ Contains(points, event.xy)
     /\ ~Contains(event.before.points, event.xy)
          => points = Append(event.before.points, event.xy)

C1_Witness ==
  /\ Settled
  /\ event.kind = "click"
  /\ Len(event.before.points) >= 1
  /\ event.before.segmented_image_rgba # NoImage
  /\ ~Contains(event.before.points, event.xy)
  /\ points = Append(event.before.points, event.xy)

\* C2: every invocation of the model receives the session's point list, all
\* points in click order, and one label 1 per point.
C2_ModelGetsAccumulatedPoints ==
  last_call # NoCall =>
     /\ Len(last_call.points) = Len(points)
     /\ \A i \in 1..Len(points) : last_call.points[i] = points[i]
     /\ Len(last_call.labels) = Len(last_call.points)
     /\ \A i \in 1..Len(last_call.labels) : last_call.labels[i] = 1

C2_Witness ==
  /\ last_call # NoCall
  /\ Len(last_call.points) >= 2
  /\ last_call.points = points

\* C3: once the runs a press of the reset button started have settled, the
\* point list is empty, the result is None, is_processing is False and
\* reset_counter has grown by 1: the click the widget held is not added again.
C3_ResetClearsPoints ==
  (Settled /\ event.kind = "reset") =>
     /\ points = <<>>
     /\ segmented_image_rgba = NoImage
     /\ ~is_processing
     /\ reset_counter = event.before.reset_counter + 1

C3_Witness ==
  /\ Settled
  /\ event.kind = "reset"
  /\ Len(event.before.points) >= 2
  /\ event.before.segmented_image_rgba # NoImage
  /\ points = <<>>
  /\ reset_counter = event.before.reset_counter + 1

\* C4: when the segmentation call raised, or returned no mask, the error or
\* warning message is on the page the user is left with once the runs the
\* press started have settled.
C4_ErrorsSurfaced ==
  (Settled /\ event.kind = "run") =>
     /\ last_call.outcome = "exception" => "error" \in page
     /\ last_call.outcome = "nomask" => "warning_nomask" \in page

\* C5: the model is invoked only in the runs a press of the run button
\* started, once per press, also after an exception or an empty mask; a new
\* stored result is the result of that invocation.
C5_OneInvocationPerPress ==
  /\ calls > 0 => event.kind = "run"
  /\ calls <= 1
  /\ (Settled /\ event.kind = "run") => calls = 1
  /\ segmented_image_rgba # NoImage =>
       \/ calls = 0 /\ segmented_image_rgba = event.before.segmented_image_rgba
       \/ /\ calls = 1
          /\ last_call.outcome = "mask"
          /\ segmented_image_rgba = SegmentedImage(last_call)

C5_Witness ==
  /\ Settled
  /\ event.kind = "run"
  /\ calls = 1
  /\ last_call.outcome = "exception"
  /\ event.before.segmented_image_rgba # NoImage

\* C6: when the uploaded file changes to a different image than the one the
\* session last handled, the points are emptied, the result is None,
\* is_processing is False and reset_counter is 0 after the run.
C6_NewImageResets ==
  (Settled /\ event.kind = "upload" /\ uploaded_file # event.image) =>
     /\ points = <<>>
     /\ segmented_image_rgba = NoImage
     /\ ~is_processing
     /\ reset_counter = 0

\* C7: the point list never holds a coordinate twice; a click on a coordinate
\* already in the list changes neither points, result nor is_processing and
\* causes no rerun.
C7_NoDuplicatePoints ==
  /\ NoDuplicates(points)
  /\ (event.kind = "click" /\ Contains(event.before.points, event.xy)) =>
       /\ points = event.before.points
       /\ segmented_image_rgba = event.before.segmented_image_rgba
       /\ is_processing = event.before.is_processing
       /\ runs <= 1

C7_Witness ==
  /\ Settled
  /\ event.kind = "click"
  /\ Contains(event.before.points, event.xy)
  /\ coords.value = event.xy
  /\ Len(points) >= 2
  /\ segmented_image_rgba # NoImage
  /\ runs = 1

\* C8: a stored result was produced by a model call on the current point
\* list, and every step that changes the point list sets the result to None.
C8_ResultNotStale ==
  /\ [](segmented_image_rgba # NoImage =>
          segmented_image_rgba.points = input_points(points))
  /\ [][points' # points => segmented_image_rgba' = NoImage]_vars

C8_Witness ==
  /\ Settled
  /\ segmented_image_rgba # NoImage
  /\ Len(points) >= 2
  /\ event.kind = "run"

\* C9: is_processing is True only between the press of the run button and
\* the run that follows; that run calls the model and sets the flag back to
\* False whatever the outcome; the flag is False in every settled state and
\* no user event starts more than three script runs.
C9_ProcessingNeverStuck ==
  /\ [](Settled => ~is_processing)
  /\ [](runs <= 3)
  /\ [][(is_processing /\ runs' = runs + 1) =>
          (~is_processing' /\ calls' = calls + 1)]_vars

C9_Witness ==
  /\ Settled
  /\ event.kind = "run"
  /\ last_call.outcome = "exception"
  /\ runs = 3
  /\ ~is_processing

\* C10: whenever the result section is drawn at the end of a run, an
\* uploaded file is present in that run.
C10_ResultHasUploadedFile ==
  (Settled /\ "result" \in page) => uploaded_file # NoFile

\* C11: the model is never invoked with an empty point list or without an
\* uploaded image: every invocation has at least one point and works on the
\* image of the file the uploader holds.
C11_NoCallWithoutPointsOrImage ==
  last_call # NoCall =>
     /\ Len(last_call.points) >= 1
     /\ Len(points) >= 1
     /\ uploaded_file # NoFile
     /\ last_call.source = uploaded_file.content

C11_Witness ==
  /\ last_call # NoCall
  /\ calls = 1
  /\ Len(last_call.points) = 1
  /\ uploaded_file # NoFile
  /\ last_call.source = uploaded_file.content
  /\ event.before.reset_counter = 1

====
